---- MODULE Spec2Model ----
(***************************************************************************)
(* pyhtk: model.py.  Model.__init__ reads the configuration and opens the  *)
(* experiment directory; Model.train runs the twelve optional stages of    *)
(* the HMM training pipeline in a fixed order.  The state is the           *)
(* experiment directory (log, shared files, misc backups, HMM snapshot     *)
(* directories), the configuration held by the Model object, and the       *)
(* position and local variables of train().                                *)
(***************************************************************************)
EXTENDS Integers, Sequences, FiniteSets, TLC

\* ------------------------------------------------------------------ bounds
MaxIters == 2
MaxSchedLen == 3
MaxRuns == 2
MaxCopyFailures == 2
MaxData == 5

\* number of Modified Baum-Welch iterations of the mmi stage
mmi_iters == 12

\* ------------------------------------------------------------- vocabulary
\* the keys of train_pipeline after 'clean', in the order train() tests them
Stages == << "coding", "lm", "flat_start", "mixup_mono", "mixdown_mono",
             "mono_to_tri", "mixup_tri", "align_with_xword",
             "mono_to_tri_from_xword", "mixup_tri_2", "diag", "mmi" >>

StageSet == { Stages[i] : i \in 1..Len(Stages) }

PipelineKeys == StageSet \cup {"clean"}

Pos(s) == CHOOSE i \in 1..Len(Stages) : Stages[i] = s

\* snapshot roots under the experiment directory
mono_root == "Mono"
mixup_mono_root == "Mono_mixup"
mixdown_mono_root == "Mono_mixdown"
xword_root == "Xword"
xword_1_root == "Xword_1"
diag_root == "Diag"
mmi_root == "MMI/Models"

\* shared files under the experiment directory
FileNames == { "config", "mfc_config", "mfc_list", "htk_dict", "word_mlf",
               "train_dict", "decode_dict", "lm", "proto_hmm", "phone_mlf",
               "phone_list", "tri_mlf", "tri_list", "tied_list",
               "align_config_mono", "align_config_xword", "realigned_mlf",
               "two_model_config", "mmi_lm", "mfc_list_mmi", "lattices" }

\* copies kept in the misc directory
MiscNames == { "mfc.list.original", "mfc.list.filtered.by.dict",
               "phone.mlf.from.dict", "mfc.list.filtered.by.mono.align",
               "phone.mlf.from.mono.align", "tri.mlf.from.mono.align",
               "tri.list.from.mono.align", "tied.list.initial",
               "phone.mlf.from.xword.align", "tri.mlf.from.xword.align",
               "tri.list.from.xword.align", "tied.list.second" }

\* likelihood per frame reported by an estimation call
Liks == { -70, -60 }

\* mixture sizes a schedule may name
MixSizes == { 1, 2, 4 }

\* '%s/HMM-%d-%d' %(root, size, iter)
SnapPath(root, size, iter) == << root, size, iter >>

NoSnap == << "", 0, 0 >>

\* the characters of a root directory below the experiment directory
RootChars(root) ==
    CASE root = mono_root -> << "M", "o", "n", "o" >>
      [] root = mixup_mono_root ->
            << "M", "o", "n", "o", "_", "m", "i", "x", "u", "p" >>
      [] root = mixdown_mono_root ->
            << "M", "o", "n", "o", "_", "m", "i", "x", "d", "o", "w", "n" >>
      [] root = xword_root -> << "X", "w", "o", "r", "d" >>
      [] root = xword_1_root -> << "X", "w", "o", "r", "d", "_", "1" >>
      [] root = diag_root -> << "D", "i", "a", "g" >>
      [] root = mmi_root ->
            << "M", "M", "I", "/", "M", "o", "d", "e", "l", "s" >>

\* '%d' of a number that is not negative
RECURSIVE Dec(_)
Dec(n) ==
    LET digit == << "0", "1", "2", "3", "4", "5", "6", "7", "8", "9" >>
    IN  IF n < 10 THEN << digit[n + 1] >>
        ELSE Dec(n \div 10) \o << digit[(n % 10) + 1] >>

\* (mutant) the format has no separator between size and iteration
PathStringNoDash(p) ==
    RootChars(p[1]) \o << "/", "H", "M", "M", "-" >> \o Dec(p[2]) \o Dec(p[3])

\* the characters of '%s/HMM-%d-%d' %(root, size, iter)
PathString(p) ==
    RootChars(p[1]) \o << "/", "H", "M", "M", "-" >> \o Dec(p[2]) \o << "-" >>
       \o Dec(p[3])

\* ---------------------------------------------------------------- state
VARIABLES
    train_pipeline,   \* Model.train_pipeline: key -> int
    params,           \* the train_params read by __init__
    runs,             \* number of Model constructions on this experiment root
    prev_pipeline,    \* train_pipeline of the previous construction
    prev_done,        \* the previous train() returned normally
    jobs,             \* Model.jobs: the number of parallel jobs of a dispatch
    setup_length,     \* Model.setup_length: the number of utterances
    disk_faults,      \* copies into misc that may fail during one train()
    pc,               \* position of train(): [stage, lbl]
    hmm_dir,          \* local variable of train()
    model_dir,        \* local variable of train() (mmi)
    iter,             \* local variable of train()
    mix_i,            \* index in the schedule of the enclosing for mix_size loop
    L,                \* local variable of train()
    log,              \* the lines of <exp>/log
    files,            \* shared file -> stage that last wrote it, "none" if absent
    misc,             \* misc copy -> stage whose version it holds, "none" if absent
    snaps,            \* existing snapshot directories -> stage that last wrote it
    ops               \* calls into the training modules made by this train()

vars == << train_pipeline, params, runs, prev_pipeline, prev_done, jobs,
           setup_length, disk_faults, pc,
           hmm_dir, model_dir, iter, mix_i, L, log, files, misc, snaps, ops >>

\* the local variables of train()
locals == << hmm_dir, model_dir, iter, mix_i, L >>

config_vars == << train_pipeline, params, runs, prev_pipeline, prev_done,
                  jobs, setup_length, disk_faults >>

\* ---------------------------------------------------------------- helpers
\* (mutant) the flag is not looked at
EnabledAlways(s) == s \in StageSet

\* the truth value python gives self.train_pipeline[s]
Enabled(s) == train_pipeline[s] # 0

\* the test of the next 'if self.train_pipeline[...]' after stage s
NextIf(s) ==
    IF Pos(s) = Len(Stages)
    THEN [stage |-> "end", lbl |-> "done"]
    ELSE [stage |-> Stages[Pos(s) + 1], lbl |-> "if"]

\* util.log_write(self.logfh, msg): one line appended to the open log
LogWrite(lg, stage, msg, arg) ==
    Append(lg, [run |-> runs, stage |-> stage, msg |-> msg, arg |-> arg])

RECURSIVE LogAll(_, _, _)
LogAll(lg, stage, msgs) ==
    IF msgs = << >> THEN lg
    ELSE LogAll(LogWrite(lg, stage, Head(msgs)[1], Head(msgs)[2]), stage, Tail(msgs))

\* os.system('cp %s %s/<name>' %(file, self.misc)): the copy is made when the
\* source exists and cp succeeds; the exit status is not looked at
RECURSIVE Backup(_, _, _)
Backup(m, f, bk) ==
    IF bk = << >> THEN m
    ELSE LET name == Head(bk)[1]
             src  == Head(bk)[2]
             m2   == IF f[src] = "none" THEN m
                     ELSE [m EXCEPT ![name] = f[src]]
         IN  Backup(m2, f, Tail(bk))

\* (mutant) the loop also stops when the likelihood has reached -60
LoopConverged(v, stop, body, exit) ==
    IF v < stop /\ L # -60 THEN body ELSE exit

\* for v in range(start, stop): the label after the test of the loop
Loop(v, stop, body, exit) == IF v < stop THEN body ELSE exit

Last(s) == s[Len(s)]

IsPrefix(s, t) == Len(s) <= Len(t) /\ SubSeq(t, 1, Len(s)) = s

\* ------------------------------------------ calls into the other modules
\* Each call is described by what train() passes to it: the snapshot it
\* starts from (in), further snapshots it reads (aux), the snapshot
\* directory it writes (out), the shared files it reads (rd) and writes (wr).
Call(op, in, aux, out, rd, wr, evf) ==
    [op |-> op, in |-> in, aux |-> aux, out |-> out, rd |-> rd, wr |-> wr,
     evf |-> evf]

FileCall(op, rd, wr) == Call(op, NoSnap, {}, NoSnap, rd, wr, 0)

\* train_hmm.run_iter(model, root_dir, prev_dir, mlf_file, model_list, mix_size, iter, extra)
run_iter(root_dir, prev_dir, mlf_file, model_list, mix_size, it) ==
    Call("run_iter", prev_dir, {}, SnapPath(root_dir, mix_size, it),
         {mlf_file, model_list}, {}, 0)

\* train_hmm.mixup(model, root_dir, prev_dir, model_list, mix_size, estimateVarFloor=0)
mixup(root_dir, prev_dir, model_list, mix_size, estimateVarFloor) ==
    Call("mixup", prev_dir, {}, SnapPath(root_dir, mix_size, 0),
         {model_list}, {}, estimateVarFloor)

\* init_hmm.initialize_hmms(model, root_dir, mfc_list, phone_list, proto_hmm)
initialize_hmms(root_dir, mfc_list, phone_list, proto_hmm) ==
    Call("initialize_hmms", NoSnap, {}, SnapPath(root_dir, 0, 0),
         {mfc_list, phone_list, proto_hmm}, {}, 0)

\* train_hmm.mixdown_mono(model, root_dir, prev_dir, phone_list)
mixdown_mono(root_dir, prev_dir, phone_list) ==
    Call("mixdown_mono", prev_dir, {}, SnapPath(root_dir, 1, 0),
         {phone_list}, {}, 0)

\* train_hmm.mono_to_tri(model, root_dir, mono_dir, phone_mlf, tri_mlf, mono_list, tri_list)
mono_to_tri(root_dir, mono_dir, phone_mlf, tri_mlf, mono_list, tri_list) ==
    Call("mono_to_tri", mono_dir, {}, SnapPath(root_dir, 0, 0),
         {phone_mlf, mono_list}, {tri_mlf, tri_list}, 0)

\* train_hmm.tie_states_search(model, output_dir, model_dir, mono_list, tri_list, tied_list)
tie_states_search(output_dir, prev_dir, mono_list, tri_list, tied_list) ==
    Call("tie_states_search", prev_dir, {}, output_dir,
         {mono_list, tri_list}, {tied_list}, 0)

\* train_hmm.align(model, root_dir, mfc_list, model_dir, word_mlf, new_mlf, model_list, dict, align_config)
align(mfc_list, prev_dir, word_mlf, new_mlf, model_list, dict, align_config) ==
    Call("align", prev_dir, {}, NoSnap,
         {mfc_list, word_mlf, model_list, dict, align_config},
         {new_mlf, mfc_list}, 0)

\* train_hmm.diagonalize(model, root_dir, seed_dir, model_list, mlf_file, num_gaussians)
diagonalize(root_dir, seed_dir, model_list, mlf_file, num_gaussians) ==
    Call("diagonalize", seed_dir, {}, SnapPath(root_dir, num_gaussians, 0),
         {model_list, mlf_file}, {}, 0)

\* every snapshot and file the call reads is there
InputsPresent(c) ==
    /\ \A f \in c.rd : files[f] # "none"
    /\ c.in # NoSnap => c.in \in DOMAIN snaps
    /\ c.aux \subseteq DOMAIN snaps

\* the stages that last wrote what the call reads
ReadBy(c) ==
    { files[f] : f \in c.rd }
      \cup { snaps[p] : p \in (c.aux \cup (IF c.in = NoSnap THEN {} ELSE {c.in})) }

\* the data list of length len cut into p contiguous pieces of len div p
\* entries, the last piece taking the remainder: piece i is << first, last >>
Split(len, p) ==
    [i \in 1..p |->
        << (i - 1) * (len \div p) + 1,
           IF i = p THEN len ELSE i * (len \div p) >>]

\* an estimation pass is dispatched as Model.jobs jobs over the utterances
JobPartitions(c) ==
    IF c.op = "run_iter" THEN Split(setup_length, jobs) ELSE << >>

\* the misc names of the copies bk
CopyNames(bk) == { bk[i][1] : i \in 1..Len(bk) }

\* the copies of this train() that failed so far
CopiesLost == UNION { ops[i].lost : i \in 1..Len(ops) }

\* the copies among bk that cp may fail to make (disk full, permissions)
MayFail(bk) ==
    IF disk_faults = 0 THEN { {} }
    ELSE { F \in SUBSET CopyNames(bk) :
              Cardinality(F) + Cardinality(CopiesLost) <= disk_faults }

WriteSnap(sn, p, stage) ==
    IF p = NoSnap THEN sn
    ELSE [q \in (DOMAIN sn) \cup {p} |-> IF q = p THEN stage ELSE sn[q]]

\* One call of stage `stage` in train() and the statements up to the next
\* call: the copies into misc (bk), the log lines (msgs), the new values of
\* the local variables and the next position.  A call whose input is
\* missing raises, and train() ends in the stage.
Exec(stage, c, bk, msgs, lbl2, hmm2, md2, iter2, mix2) ==
    IF InputsPresent(c)
    THEN /\ files' = [f \in FileNames |-> IF f \in c.wr THEN stage ELSE files[f]]
         /\ snaps' = WriteSnap(snaps, c.out, stage)
         /\ \E F \in MayFail(bk) :
               /\ misc' = Backup(misc, files',
                                 SelectSeq(bk, LAMBDA b : b[1] \notin F))
               /\ ops' = Append(ops, [stage |-> stage, op |-> c.op, in |-> c.in,
                                      out |-> c.out, evf |-> c.evf,
                                      fresh |-> c.out \notin DOMAIN snaps,
                                      readBy |-> ReadBy(c),
                                      from |-> [f \in c.rd |-> files[f]],
                                      wr |-> c.wr, bk |-> bk, lost |-> F,
                                      parts |-> JobPartitions(c)])
         /\ log' = LogAll(log, stage, msgs)
         /\ \/ /\ c.op \in {"run_iter", "diagonalize"}
               /\ L' \in Liks
            \/ /\ c.op \notin {"run_iter", "diagonalize"}
               /\ L' = L
         /\ hmm_dir' = hmm2
         /\ model_dir' = md2
         /\ iter' = iter2
         /\ mix_i' = mix2
         /\ pc' = [stage |-> stage, lbl |-> lbl2]
         /\ UNCHANGED config_vars
    ELSE /\ pc' = [stage |-> stage, lbl |-> "failed"]
         /\ UNCHANGED << config_vars, locals, log, files, misc, snaps, ops >>

At(stage, lbl) == pc = [stage |-> stage, lbl |-> lbl]

\* (mutant) the body of the stage is entered before anything is logged
StartSilent(stage, lbl2) ==
    /\ At(stage, "if")
    /\ Enabled(stage)
    /\ log' = log
    /\ pc' = [stage |-> stage, lbl |-> lbl2]

\* if self.train_pipeline[stage]: log(self.logfh, '<STAGE> started')
Start(stage, lbl2) ==
    /\ At(stage, "if")
    /\ Enabled(stage)
    /\ log' = LogWrite(log, stage, "started", NoSnap)
    /\ pc' = [stage |-> stage, lbl |-> lbl2]

\* the stage's flag is 0: train() goes on to the next test
Skip(stage) ==
    /\ At(stage, "if")
    /\ ~Enabled(stage)
    /\ pc' = NextIf(stage)
    /\ UNCHANGED << config_vars, locals, log, files, misc, snaps, ops >>

\* (mutant) the stage ends without its 'finished' line
FinishSilent(stage) ==
    /\ At(stage, "finish")
    /\ pc' = NextIf(stage)
    /\ UNCHANGED << config_vars, locals, log, files, misc, snaps, ops >>

\* log(self.logfh, '<STAGE> finished')
Finish(stage) ==
    /\ At(stage, "finish")
    /\ log' = LogWrite(log, stage, "finished", NoSnap)
    /\ pc' = NextIf(stage)
    /\ UNCHANGED << config_vars, locals, files, misc, snaps, ops >>

\* ------------------------------------------------------------ train()
\* self.config.write(open(config_output, 'w')); log('TRAINING with config')
TrainBegin ==
    /\ At("train", "begin")
    /\ files' = [files EXCEPT !["config"] = "train"]
    /\ log' = LogWrite(log, "train", "TRAINING with config", NoSnap)
    /\ pc' = [stage |-> "coding", lbl |-> "if"]
    /\ UNCHANGED << config_vars, locals, misc, snaps, ops >>

\* ---- coding
CodingSkip == Skip("coding")

CodingStart ==
    /\ Start("coding", "wav_to_mfc")
    /\ UNCHANGED << config_vars, locals, files, misc, snaps, ops >>

\* (mutant) the first mfc.list is not copied to misc
Coding_wav_to_mfc_no_copy ==
    /\ At("coding", "wav_to_mfc")
    /\ Exec("coding", FileCall("wav_to_mfc", {}, {"mfc_config", "mfc_list"}),
            << >>,
            << <<"wrote mfc files", NoSnap>> >>,
            "finish", hmm_dir, model_dir, iter, mix_i)

Coding_wav_to_mfc ==
    /\ At("coding", "wav_to_mfc")
    /\ Exec("coding", FileCall("wav_to_mfc", {}, {"mfc_config", "mfc_list"}),
            << <<"mfc.list.original", "mfc_list">> >>,
            << <<"wrote mfc files", NoSnap>> >>,
            "finish", hmm_dir, model_dir, iter, mix_i)

CodingFinish == Finish("coding")

\* ---- lm
LmSkip == Skip("lm")

LmStart ==
    /\ Start("lm", "fix_cmu_dict")
    /\ UNCHANGED << config_vars, locals, files, misc, snaps, ops >>

Lm_fix_cmu_dict ==
    /\ At("lm", "fix_cmu_dict")
    /\ Exec("lm", FileCall("fix_cmu_dict", {}, {"htk_dict"}), << >>, << >>,
            "make_mlf_from_transcripts", hmm_dir, model_dir, iter, mix_i)

Lm_make_mlf_from_transcripts ==
    /\ At("lm", "make_mlf_from_transcripts")
    /\ Exec("lm", FileCall("make_mlf_from_transcripts", {"htk_dict"},
                           {"word_mlf", "mfc_list"}),
            << <<"mfc.list.filtered.by.dict", "mfc_list">> >>,
            << <<"wrote word mlf", NoSnap>> >>,
            "make_train_dict", hmm_dir, model_dir, iter, mix_i)

Lm_make_train_dict ==
    /\ At("lm", "make_train_dict")
    /\ Exec("lm", FileCall("make_train_dict", {"htk_dict"},
                           {"train_dict", "decode_dict"}),
            << >>, << <<"wrote training dictionary", NoSnap>> >>,
            "build_lm_from_mlf", hmm_dir, model_dir, iter, mix_i)

Lm_build_lm_from_mlf ==
    /\ At("lm", "build_lm_from_mlf")
    /\ Exec("lm", FileCall("build_lm_from_mlf", {"word_mlf", "train_dict"}, {"lm"}),
            << >>, << <<"wrote lm", NoSnap>> >>,
            "finish", hmm_dir, model_dir, iter, mix_i)

LmFinish == Finish("lm")


\* ---- flat_start
FlatStartSkip == Skip("flat_start")

FlatStartStart ==
    /\ Start("flat_start", "word_to_phone_mlf")
    /\ UNCHANGED << config_vars, locals, files, misc, snaps, ops >>

FlatStart_word_to_phone_mlf ==
    /\ At("flat_start", "word_to_phone_mlf")
    /\ Exec("flat_start",
            FileCall("word_to_phone_mlf", {"train_dict", "word_mlf"},
                     {"phone_mlf", "phone_list"}),
            << <<"phone.mlf.from.dict", "phone_mlf">> >>,
            << <<"wrote phone mlf", NoSnap>> >>,
            "make_proto_hmm", hmm_dir, model_dir, iter, mix_i)

FlatStart_make_proto_hmm ==
    /\ At("flat_start", "make_proto_hmm")
    /\ Exec("flat_start", FileCall("make_proto_hmm", {"mfc_list"}, {"proto_hmm"}),
            << >>, << >>, "initialize_hmms", hmm_dir, model_dir, iter, mix_i)

\* followed by the test of 'for iter in range(1, self.initial_mono_iters+1)'
FlatStart_initialize_hmms ==
    /\ At("flat_start", "initialize_hmms")
    /\ LET c == initialize_hmms(mono_root, "mfc_list", "phone_list", "proto_hmm")
       IN  Exec("flat_start", c, << >>,
                << <<"initialized an HMM for each phone", c.out>>,
                   <<"used mfc files to compute variance floor", NoSnap>> >>,
                Loop(1, params.initial_mono_iters + 1, "run_iter_1", "align_config"),
                c.out, model_dir, 1, mix_i)

FlatStart_run_iter_1 ==
    /\ At("flat_start", "run_iter_1")
    /\ LET c == run_iter(mono_root, hmm_dir, "phone_mlf", "phone_list", 1, iter)
       IN  Exec("flat_start", c, << >>,
                << <<"ran an iteration of BW", c.out>> >>,
                Loop(iter + 1, params.initial_mono_iters + 1, "run_iter_1",
                     "align_config"),
                c.out, model_dir, iter + 1, mix_i)

\* align_config = '%s/config.align' %self.mono_root; fh.write(...)
FlatStart_align_config ==
    /\ At("flat_start", "align_config")
    /\ files' = [files EXCEPT !["align_config_mono"] = "flat_start"]
    /\ pc' = [stage |-> "flat_start", lbl |-> "align"]
    /\ UNCHANGED << config_vars, locals, log, misc, snaps, ops >>

\* followed by the test of the second 'for iter in range(...)'
FlatStart_align ==
    /\ At("flat_start", "align")
    /\ Exec("flat_start",
            align("mfc_list", hmm_dir, "word_mlf", "phone_mlf", "phone_list",
                  "train_dict", "align_config_mono"),
            << <<"mfc.list.filtered.by.mono.align", "mfc_list">>,
               <<"phone.mlf.from.mono.align", "phone_mlf">> >>,
            << <<"aligned with model", hmm_dir>> >>,
            Loop(params.initial_mono_iters + 1,
                 params.initial_mono_iters + 1 + params.mono_iters,
                 "run_iter_2", "finish"),
            hmm_dir, model_dir, params.initial_mono_iters + 1, mix_i)

FlatStart_run_iter_2 ==
    /\ At("flat_start", "run_iter_2")
    /\ LET c == run_iter(mono_root, hmm_dir, "phone_mlf", "phone_list", 1, iter)
       IN  Exec("flat_start", c, << >>,
                << <<"ran an iteration of BW", c.out>> >>,
                Loop(iter + 1, params.initial_mono_iters + 1 + params.mono_iters,
                     "run_iter_2", "finish"),
                c.out, model_dir, iter + 1, mix_i)

FlatStartFinish == Finish("flat_start")

\* ---- mixture growth: for mix_size in schedule: mixup; for iter in range(1, n+1): run_iter
\* (mutant) the last schedule entry is never reached
MixLoopLblShort(it, n, mi, sched) ==
    IF it < n + 1 THEN "run_iter"
    ELSE IF mi < Len(sched) - 1 THEN "mixup" ELSE "finish"

\* the position after pass `it` of the inner loop of schedule entry `mi`
MixLoopLbl(it, n, mi, sched) ==
    IF it < n + 1 THEN "run_iter"
    ELSE IF mi < Len(sched) THEN "mixup" ELSE "finish"

MixLoopIdx(it, n, mi) == IF it < n + 1 THEN mi ELSE mi + 1

\* if mix_size==2: estimateVarFloor=1
EstimateVarFloor(mix_size) == IF mix_size = 2 THEN 1 ELSE 0

GrowMixup(stage, root, model_list, sched, n, evf) ==
    /\ At(stage, "mixup")
    /\ LET c == mixup(root, hmm_dir, model_list, sched[mix_i], evf)
       IN  Exec(stage, c, << >>, << <<"mixed up", c.out>> >>,
                MixLoopLbl(1, n, mix_i, sched),
                c.out, model_dir, 1, MixLoopIdx(1, n, mix_i))

GrowRunIter(stage, root, mlf_file, model_list, sched, n) ==
    /\ At(stage, "run_iter")
    /\ LET c == run_iter(root, hmm_dir, mlf_file, model_list, sched[mix_i], iter)
       IN  Exec(stage, c, << >>, << <<"ran an iteration of BW", c.out>> >>,
                MixLoopLbl(iter + 1, n, mix_i, sched),
                c.out, model_dir, iter + 1, MixLoopIdx(iter + 1, n, mix_i))

\* ---- mixup_mono
MixupMonoSkip == Skip("mixup_mono")

MixupMonoStart ==
    /\ Start("mixup_mono", "mixup")
    /\ hmm_dir' = SnapPath(mono_root, 1,
                           params.initial_mono_iters + params.mono_iters)
    /\ mix_i' = 1
    /\ UNCHANGED << config_vars, model_dir, iter, L, files, misc, snaps, ops >>

MixupMono_mixup ==
    GrowMixup("mixup_mono", mixup_mono_root, "phone_list",
              params.mono_mixup_schedule, params.mono_iters, 0)

MixupMono_run_iter ==
    GrowRunIter("mixup_mono", mixup_mono_root, "phone_mlf", "phone_list",
                params.mono_mixup_schedule, params.mono_iters)

MixupMonoFinish == Finish("mixup_mono")

\* ---- mixdown_mono
MixdownMonoSkip == Skip("mixdown_mono")

MixdownMonoStart ==
    /\ Start("mixdown_mono", "mixdown_mono")
    /\ hmm_dir' = SnapPath(mixup_mono_root, Last(params.mono_mixup_schedule),
                           params.mono_iters)
    /\ UNCHANGED << config_vars, model_dir, iter, mix_i, L, files, misc,
                    snaps, ops >>

MixdownMono_mixdown_mono ==
    /\ At("mixdown_mono", "mixdown_mono")
    /\ Exec("mixdown_mono", mixdown_mono(mixdown_mono_root, hmm_dir, "phone_list"),
            << >>, << >>, "finish", hmm_dir, model_dir, iter, mix_i)

MixdownMonoFinish == Finish("mixdown_mono")

\* ---- mono_to_tri
\* the final monophone snapshot as mono_to_tri resolves it
mono_final_dir(tp) ==
    IF tp["mixdown_mono"] # 0
    THEN SnapPath(mixdown_mono_root, 1, 0)
    ELSE SnapPath(mono_root, 1, params.initial_mono_iters + params.mono_iters)

MonoToTriSkip == Skip("mono_to_tri")

MonoToTriStart ==
    /\ Start("mono_to_tri", "mono_to_tri")
    /\ UNCHANGED << config_vars, locals, files, misc, snaps, ops >>

MonoToTri_mono_to_tri ==
    /\ At("mono_to_tri", "mono_to_tri")
    /\ LET c == mono_to_tri(xword_root, mono_final_dir(train_pipeline),
                            "phone_mlf", "tri_mlf", "phone_list", "tri_list")
       IN  Exec("mono_to_tri", c,
                << <<"tri.mlf.from.mono.align", "tri_mlf">>,
                   <<"tri.list.from.mono.align", "tri_list">> >>,
                << <<"initialized triphone models", c.out>>,
                   <<"created triphone mlf", NoSnap>> >>,
                Loop(1, params.initial_tri_iters + 1, "run_iter_1",
                     "tie_states_search"),
                c.out, model_dir, 1, mix_i)

MonoToTri_run_iter_1 ==
    /\ At("mono_to_tri", "run_iter_1")
    /\ LET c == run_iter(xword_root, hmm_dir, "tri_mlf", "tri_list", 1, iter)
       IN  Exec("mono_to_tri", c, << >>,
                << <<"ran an iteration of BW", c.out>> >>,
                Loop(iter + 1, params.initial_tri_iters + 1, "run_iter_1",
                     "tie_states_search"),
                c.out, model_dir, iter + 1, mix_i)

\* hmm_dir is then set to '%s/HMM-%d-%d' %(xword_root, 1, initial_tri_iters+1)
MonoToTri_tie_states_search ==
    /\ At("mono_to_tri", "tie_states_search")
    /\ LET xword_tie_dir == SnapPath(xword_root, 1, params.initial_tri_iters + 1)
           c == tie_states_search(xword_tie_dir, hmm_dir, "phone_list",
                                  "tri_list", "tied_list")
       IN  Exec("mono_to_tri", c,
                << <<"tied.list.initial", "tied_list">> >>,
                << <<"tied states", c.out>> >>,
                Loop(params.initial_tri_iters + 2,
                     params.initial_tri_iters + 1 + params.tri_iters + 1,
                     "run_iter_2", "finish"),
                SnapPath(xword_root, 1, params.initial_tri_iters + 1),
                model_dir, params.initial_tri_iters + 2, mix_i)

MonoToTri_run_iter_2 ==
    /\ At("mono_to_tri", "run_iter_2")
    /\ LET c == run_iter(xword_root, hmm_dir, "tri_mlf", "tied_list", 1, iter)
       IN  Exec("mono_to_tri", c, << >>,
                << <<"ran an iteration of BW", c.out>> >>,
                Loop(iter + 1,
                     params.initial_tri_iters + 1 + params.tri_iters + 1,
                     "run_iter_2", "finish"),
                c.out, model_dir, iter + 1, mix_i)

MonoToTriFinish == Finish("mono_to_tri")

\* ---- mixup_tri
MixupTriSkip == Skip("mixup_tri")

\* (mutant) a first schedule entry of 1 is not split to
MixupTriStartSkipOne ==
    /\ Start("mixup_tri", "mixup")
    /\ hmm_dir' = SnapPath(xword_root, 1,
                           params.initial_tri_iters + params.tri_iters + 1)
    /\ mix_i' = IF params.tri_mixup_schedule[1] = 1
                   /\ Len(params.tri_mixup_schedule) > 1 THEN 2 ELSE 1
    /\ UNCHANGED << config_vars, model_dir, iter, L, files, misc, snaps, ops >>

MixupTriStart ==
    /\ Start("mixup_tri", "mixup")
    /\ hmm_dir' = SnapPath(xword_root, 1,
                           params.initial_tri_iters + params.tri_iters + 1)
    /\ mix_i' = 1
    /\ UNCHANGED << config_vars, model_dir, iter, L, files, misc, snaps, ops >>

MixupTri_mixup ==
    GrowMixup("mixup_tri", xword_root, "tied_list", params.tri_mixup_schedule,
              params.tri_iters_per_split,
              EstimateVarFloor(params.tri_mixup_schedule[mix_i]))

MixupTri_run_iter ==
    GrowRunIter("mixup_tri", xword_root, "tri_mlf", "tied_list",
                params.tri_mixup_schedule, params.tri_iters_per_split)

MixupTriFinish == Finish("mixup_tri")

\* ---- align_with_xword
\* '%s/HMM-%d-%d' %(self.xword_root, self.tri_mixup_schedule[-1], self.tri_iters_per_split)
xword_final_dir ==
    SnapPath(xword_root, Last(params.tri_mixup_schedule),
             params.tri_iters_per_split)

AlignSkip == Skip("align_with_xword")

AlignStart ==
    /\ Start("align_with_xword", "make_hvite_xword_config")
    /\ UNCHANGED << config_vars, locals, files, misc, snaps, ops >>

Align_make_hvite_xword_config ==
    /\ At("align_with_xword", "make_hvite_xword_config")
    /\ Exec("align_with_xword",
            FileCall("make_hvite_xword_config", {}, {"align_config_xword"}),
            << >>, << >>, "restore_mfc_list",
            xword_final_dir, model_dir, iter, mix_i)

\* os.system('cp %s/mfc.list.filtered.by.dict %s' %(self.misc, self.mfc_list))
Align_restore_mfc_list ==
    /\ At("align_with_xword", "restore_mfc_list")
    /\ files' = IF misc["mfc.list.filtered.by.dict"] = "none" THEN files
                ELSE [files EXCEPT !["mfc_list"] = "align_with_xword"]
    /\ pc' = [stage |-> "align_with_xword", lbl |-> "align"]
    /\ UNCHANGED << config_vars, locals, log, misc, snaps, ops >>

Align_align ==
    /\ At("align_with_xword", "align")
    /\ Exec("align_with_xword",
            align("mfc_list", hmm_dir, "word_mlf", "realigned_mlf", "tied_list",
                  "train_dict", "align_config_xword"),
            << >>, << <<"aligned with model", hmm_dir>> >>,
            "map_tri_to_mono", hmm_dir, model_dir, iter, mix_i)

Align_map_tri_to_mono ==
    /\ At("align_with_xword", "map_tri_to_mono")
    /\ Exec("align_with_xword",
            FileCall("map_tri_to_mono", {"realigned_mlf"}, {"phone_mlf"}),
            << <<"phone.mlf.from.xword.align", "phone_mlf">> >>, << >>,
            "finish", hmm_dir, model_dir, iter, mix_i)

AlignFinish == Finish("align_with_xword")

\* ---- mono_to_tri_from_xword
FromXwordSkip == Skip("mono_to_tri_from_xword")

FromXwordStart ==
    /\ Start("mono_to_tri_from_xword", "mono_to_tri")
    /\ UNCHANGED << config_vars, locals, files, misc, snaps, ops >>

\* mono_final_dir = '%s/HMM-1-0' %self.mixdown_mono_root
FromXword_mono_to_tri ==
    /\ At("mono_to_tri_from_xword", "mono_to_tri")
    /\ LET c == mono_to_tri(xword_1_root, SnapPath(mixdown_mono_root, 1, 0),
                            "phone_mlf", "tri_mlf", "phone_list", "tri_list")
       IN  Exec("mono_to_tri_from_xword", c,
                << <<"tri.mlf.from.xword.align", "tri_mlf">>,
                   <<"tri.list.from.xword.align", "tri_list">> >>,
                << <<"initialized triphone models", c.out>> >>,
                "two_model_config", c.out, model_dir, iter, mix_i)

\* two_model_config = '%s/config.two_model' %self.xword_1_root; fh.write(...)
FromXword_two_model_config ==
    /\ At("mono_to_tri_from_xword", "two_model_config")
    /\ files' = [files EXCEPT !["two_model_config"] = "mono_to_tri_from_xword"]
    /\ pc' = [stage |-> "mono_to_tri_from_xword", lbl |-> "run_iter_1"]
    /\ UNCHANGED << config_vars, locals, log, misc, snaps, ops >>

\* one pass of two-model re-estimation: extra = ' -C %s' %two_model_config
\* names the alignment model ALIGNMODELMMF and its list ALIGNHMMLIST
FromXword_run_iter_1 ==
    /\ At("mono_to_tri_from_xword", "run_iter_1")
    /\ LET c0 == run_iter(xword_1_root, hmm_dir, "tri_mlf", "tri_list", 1, 1)
           c == [c0 EXCEPT !.aux = {xword_final_dir},
                           !.rd = @ \cup {"two_model_config", "tied_list"}]
       IN  Exec("mono_to_tri_from_xword", c, << >>,
                << <<"ran an iteration of BW", c.out>> >>,
                "tie_states_search", c.out, model_dir, iter, mix_i)

\* (mutant) the second map is copied over the copy of the first
FromXword_tie_states_search_same_copy ==
    /\ At("mono_to_tri_from_xword", "tie_states_search")
    /\ LET xword_tie_dir == SnapPath(xword_1_root, 1, 2)
           c == tie_states_search(xword_tie_dir, hmm_dir, "phone_list",
                                  "tri_list", "tied_list")
       IN  Exec("mono_to_tri_from_xword", c,
                << <<"tied.list.initial", "tied_list">> >>,
                << <<"tied states", c.out>> >>,
                Loop(3, params.tri_iters + 3, "run_iter_2", "finish"),
                SnapPath(xword_1_root, 1, 2), model_dir, 3, mix_i)

\* hmm_dir is then set to '%s/HMM-1-2' %self.xword_1_root
FromXword_tie_states_search ==
    /\ At("mono_to_tri_from_xword", "tie_states_search")
    /\ LET xword_tie_dir == SnapPath(xword_1_root, 1, 2)
           c == tie_states_search(xword_tie_dir, hmm_dir, "phone_list",
                                  "tri_list", "tied_list")
       IN  Exec("mono_to_tri_from_xword", c,
                << <<"tied.list.second", "tied_list">> >>,
                << <<"tied states", c.out>> >>,
                Loop(3, params.tri_iters + 3, "run_iter_2", "finish"),
                SnapPath(xword_1_root, 1, 2), model_dir, 3, mix_i)

FromXword_run_iter_2 ==
    /\ At("mono_to_tri_from_xword", "run_iter_2")
    /\ LET c == run_iter(xword_1_root, hmm_dir, "tri_mlf", "tied_list", 1, iter)
       IN  Exec("mono_to_tri_from_xword", c, << >>,
                << <<"ran an iteration of BW", c.out>> >>,
                Loop(iter + 1, params.tri_iters + 3, "run_iter_2", "finish"),
                c.out, model_dir, iter + 1, mix_i)

FromXwordFinish == Finish("mono_to_tri_from_xword")

\* ---- mixup_tri_2
MixupTri2Skip == Skip("mixup_tri_2")

\* (mutant) start_iter is one too high
MixupTri2StartOffByOne ==
    /\ Start("mixup_tri_2", "mixup")
    /\ hmm_dir' = SnapPath(xword_1_root, 1, params.tri_iters + 3)
    /\ mix_i' = 1
    /\ UNCHANGED << config_vars, model_dir, iter, L, files, misc, snaps, ops >>

MixupTri2Start ==
    /\ Start("mixup_tri_2", "mixup")
    /\ hmm_dir' = SnapPath(xword_1_root, 1, params.tri_iters + 2)
    /\ mix_i' = 1
    /\ UNCHANGED << config_vars, model_dir, iter, L, files, misc, snaps, ops >>

MixupTri2_mixup ==
    GrowMixup("mixup_tri_2", xword_1_root, "tied_list",
              params.tri_mixup_schedule, params.tri_iters_per_split,
              EstimateVarFloor(params.tri_mixup_schedule[mix_i]))

MixupTri2_run_iter ==
    GrowRunIter("mixup_tri_2", xword_1_root, "tri_mlf", "tied_list",
                params.tri_mixup_schedule, params.tri_iters_per_split)

MixupTri2Finish == Finish("mixup_tri_2")

\* ---- diag
\* (mutant) the seed is taken from the first triphone pass whatever the flags
diag_seed_dir_xword(tp) ==
    SnapPath(xword_root, Last(params.tri_mixup_schedule),
             params.tri_iters_per_split)

\* the seed snapshot as diag resolves it
diag_seed_dir(tp) ==
    IF tp["mixup_tri_2"] # 0
    THEN SnapPath(xword_1_root, Last(params.tri_mixup_schedule),
                  params.tri_iters_per_split)
    ELSE SnapPath(xword_root, Last(params.tri_mixup_schedule),
                  params.tri_iters_per_split)

DiagSkip == Skip("diag")

DiagStart ==
    /\ Start("diag", "diagonalize")
    /\ UNCHANGED << config_vars, locals, files, misc, snaps, ops >>

Diag_diagonalize ==
    /\ At("diag", "diagonalize")
    /\ LET c == diagonalize(diag_root, diag_seed_dir(train_pipeline),
                            "tied_list", "tri_mlf",
                            Last(params.tri_mixup_schedule))
       IN  Exec("diag", c, << >>, << <<"ran diag", c.out>> >>,
                Loop(1, params.tri_iters_per_split + 1, "run_iter", "finish"),
                c.out, model_dir, 1, mix_i)

Diag_run_iter ==
    /\ At("diag", "run_iter")
    /\ LET c == run_iter(diag_root, hmm_dir, "tri_mlf", "tied_list",
                         Last(params.tri_mixup_schedule), iter)
       IN  Exec("diag", c, << >>, << <<"ran an iteration of BW", c.out>> >>,
                Loop(iter + 1, params.tri_iters_per_split + 1, "run_iter",
                     "finish"),
                c.out, model_dir, iter + 1, mix_i)

DiagFinish == Finish("diag")

\* ---- mmi
\* the seed model as mmi resolves it
mmi_model_dir(tp) ==
    IF tp["diag"] # 0
    THEN SnapPath(diag_root, Last(params.tri_mixup_schedule),
                  params.tri_iters_per_split)
    ELSE IF tp["mixup_tri_2"] # 0
    THEN SnapPath(xword_1_root, Last(params.tri_mixup_schedule),
                  params.tri_iters_per_split)
    ELSE SnapPath(xword_root, Last(params.tri_mixup_schedule),
                  params.tri_iters_per_split)

\* an operation of mmi on the lattice directories
LatticeCall(op, in, rd) ==
    Call(op, in, {}, NoSnap, rd, {"lattices"}, 0)

MmiSkip == Skip("mmi")

MmiStart ==
    /\ Start("mmi", "copy_mfc_list")
    /\ UNCHANGED << config_vars, locals, files, misc, snaps, ops >>

\* util.create_new_dir(mmi_dir); os.system('cp %s %s' %(self.mfc_list, mfc_list_mmi))
Mmi_copy_mfc_list ==
    /\ At("mmi", "copy_mfc_list")
    /\ files' = [files EXCEPT !["mfc_list_mmi"] =
                    IF files["mfc_list"] = "none" THEN "none" ELSE "mmi",
                              !["lattices"] = "none"]
    /\ pc' = [stage |-> "mmi", lbl |-> "build_lm_from_mlf"]
    /\ UNCHANGED << config_vars, locals, log, misc, snaps, ops >>

Mmi_build_lm_from_mlf ==
    /\ At("mmi", "build_lm_from_mlf")
    /\ Exec("mmi", FileCall("build_lm_from_mlf", {"word_mlf", "train_dict"},
                            {"mmi_lm"}),
            << >>, << <<"wrote lm for mmi", NoSnap>> >>,
            "decode_to_lattices", hmm_dir, mmi_model_dir(train_pipeline),
            iter, mix_i)

Mmi_decode_to_lattices ==
    /\ At("mmi", "decode_to_lattices")
    /\ Exec("mmi",
            LatticeCall("decode_to_lattices", model_dir,
                        {"mfc_list_mmi", "mmi_lm", "decode_dict", "tied_list",
                         "word_mlf"}),
            << >>, << <<"generated training lattices", NoSnap>> >>,
            "prune_lattices", hmm_dir, model_dir, iter, mix_i)

Mmi_prune_lattices ==
    /\ At("mmi", "prune_lattices")
    /\ Exec("mmi", LatticeCall("prune_lattices", NoSnap,
                               {"lattices", "decode_dict"}),
            << >>, << <<"pruned lattices", NoSnap>> >>,
            "phonemark_lattices", hmm_dir, model_dir, iter, mix_i)

Mmi_phonemark_lattices ==
    /\ At("mmi", "phonemark_lattices")
    /\ Exec("mmi",
            LatticeCall("phonemark_lattices", model_dir,
                        {"lattices", "mfc_list_mmi", "mmi_lm", "decode_dict",
                         "tied_list"}),
            << >>, << <<"phone-marked lattices", NoSnap>> >>,
            "create_num_lattices", hmm_dir, model_dir, iter, mix_i)

Mmi_create_num_lattices ==
    /\ At("mmi", "create_num_lattices")
    /\ Exec("mmi", LatticeCall("create_num_lattices", NoSnap,
                               {"mmi_lm", "decode_dict", "word_mlf"}),
            << >>, << <<"generated numerator lattices", NoSnap>> >>,
            "phonemark_num_lattices", hmm_dir, model_dir, iter, mix_i)

Mmi_phonemark_num_lattices ==
    /\ At("mmi", "phonemark_num_lattices")
    /\ Exec("mmi",
            LatticeCall("phonemark_lattices", model_dir,
                        {"lattices", "mfc_list_mmi", "mmi_lm", "decode_dict",
                         "tied_list"}),
            << >>, << <<"phone-marked numerator lattices", NoSnap>> >>,
            "add_lm_lattices", hmm_dir, model_dir, iter, mix_i)

\* followed by the test of 'for iter in range(1, mmi_iters+1)'
Mmi_add_lm_lattices ==
    /\ At("mmi", "add_lm_lattices")
    /\ Exec("mmi", LatticeCall("add_lm_lattices", NoSnap,
                               {"lattices", "decode_dict", "mmi_lm"}),
            << >>, << <<"added LM scores to numerator lattices", NoSnap>> >>,
            Loop(1, mmi_iters + 1, "run_iter", "finish"),
            hmm_dir, model_dir, 1, mix_i)

\* model_dir = mmi.run_iter(model, model_dir, ..., root_dir, tied_list, mfc_list_mmi, mix_size, iter)
Mmi_run_iter ==
    /\ At("mmi", "run_iter")
    /\ LET c == Call("mmi.run_iter", model_dir, {},
                     SnapPath(mmi_root, Last(params.tri_mixup_schedule), iter),
                     {"lattices", "tied_list", "mfc_list_mmi"}, {}, 0)
       IN  Exec("mmi", c, << >>,
                << <<"ran an iteration of Modified BW", c.out>> >>,
                Loop(iter + 1, mmi_iters + 1, "run_iter", "finish"),
                hmm_dir, c.out, iter + 1, mix_i)

MmiFinish == Finish("mmi")

\* ---- failure of a call
\* the positions of train() that are not in front of a call into another module
NoCallLabels == { "begin", "if", "finish", "failed", "done", "printed",
                  "align_config",
                  "restore_mfc_list", "two_model_config", "copy_mfc_list" }

\* the call train() is about to make raises (non-zero exit of the engine,
\* unusable data): train() does not catch it
EngineFail ==
    /\ pc.lbl \notin NoCallLabels
    /\ pc' = [pc EXCEPT !.lbl = "failed"]
    /\ UNCHANGED << config_vars, locals, log, files, misc, snaps, ops >>

\* ---- __main__
\* model.train() has returned: print 'time elapsed [%1.2f]' %total_time
MainPrint ==
    /\ At("end", "done")
    /\ pc' = [stage |-> "end", lbl |-> "printed"]
    /\ UNCHANGED << config_vars, locals, log, files, misc, snaps, ops >>

\* ---- all steps of train()
TrainStep ==
    \/ TrainBegin
    \/ CodingSkip \/ CodingStart \/ Coding_wav_to_mfc \/ CodingFinish
    \/ LmSkip \/ LmStart \/ Lm_fix_cmu_dict \/ Lm_make_mlf_from_transcripts
    \/ Lm_make_train_dict \/ Lm_build_lm_from_mlf \/ LmFinish
    \/ FlatStartSkip \/ FlatStartStart \/ FlatStart_word_to_phone_mlf
    \/ FlatStart_make_proto_hmm \/ FlatStart_initialize_hmms
    \/ FlatStart_run_iter_1 \/ FlatStart_align_config \/ FlatStart_align
    \/ FlatStart_run_iter_2 \/ FlatStartFinish
    \/ MixupMonoSkip \/ MixupMonoStart \/ MixupMono_mixup
    \/ MixupMono_run_iter \/ MixupMonoFinish
    \/ MixdownMonoSkip \/ MixdownMonoStart \/ MixdownMono_mixdown_mono
    \/ MixdownMonoFinish
    \/ MonoToTriSkip \/ MonoToTriStart \/ MonoToTri_mono_to_tri
    \/ MonoToTri_run_iter_1 \/ MonoToTri_tie_states_search
    \/ MonoToTri_run_iter_2 \/ MonoToTriFinish
    \/ MixupTriSkip \/ MixupTriStart \/ MixupTri_mixup \/ MixupTri_run_iter
    \/ MixupTriFinish
    \/ AlignSkip \/ AlignStart \/ Align_make_hvite_xword_config
    \/ Align_restore_mfc_list \/ Align_align \/ Align_map_tri_to_mono
    \/ AlignFinish
    \/ FromXwordSkip \/ FromXwordStart \/ FromXword_mono_to_tri
    \/ FromXword_two_model_config \/ FromXword_run_iter_1
    \/ FromXword_tie_states_search \/ FromXword_run_iter_2 \/ FromXwordFinish
    \/ MixupTri2Skip \/ MixupTri2Start \/ MixupTri2_mixup
    \/ MixupTri2_run_iter \/ MixupTri2Finish
    \/ DiagSkip \/ DiagStart \/ Diag_diagonalize \/ Diag_run_iter
    \/ DiagFinish
    \/ MmiSkip \/ MmiStart \/ Mmi_copy_mfc_list \/ Mmi_build_lm_from_mlf
    \/ Mmi_decode_to_lattices \/ Mmi_prune_lattices \/ Mmi_phonemark_lattices
    \/ Mmi_create_num_lattices \/ Mmi_phonemark_num_lattices
    \/ Mmi_add_lm_lattices \/ Mmi_run_iter \/ MmiFinish

\* ---- Model.__init__
\* the configurations explored: flags and train_params
DefaultParams ==
    [initial_mono_iters |-> 1, mono_iters |-> 1, mono_mixup_schedule |-> <<2>>,
     initial_tri_iters |-> 1, tri_iters |-> 1, tri_mixup_schedule |-> <<2>>,
     tri_iters_per_split |-> 1]

Counts == 0..MaxIters

NonDecreasing(s) == \A i \in 1..(Len(s) - 1) : s[i] <= s[i + 1]

\* map(int, '<n>_<n>_...'.split('_')): at least one entry
Schedules ==
    { s \in UNION { [1..n -> MixSizes] : n \in 1..MaxSchedLen } : NonDecreasing(s) }

\* the iteration counts and the schedule of the monophone stages
MonoParams ==
    { [DefaultParams EXCEPT !.initial_mono_iters = a, !.mono_iters = b] :
        a \in Counts, b \in Counts }
    \cup
    { [DefaultParams EXCEPT !.mono_iters = b, !.mono_mixup_schedule = s] :
        b \in Counts, s \in Schedules }

\* the iteration counts and the schedule of the triphone stages
TriParams ==
    { [DefaultParams EXCEPT !.initial_tri_iters = a, !.tri_iters = b] :
        a \in Counts, b \in Counts }
    \cup
    { [DefaultParams EXCEPT !.tri_iters_per_split = c,
                            !.tri_mixup_schedule = s] :
        c \in Counts, s \in Schedules }

AllOn == [k \in PipelineKeys |-> IF k = "clean" THEN 0 ELSE 1]

\* stages 1..k only, and stages k+1..12 only
FirstStages(k) ==
    [s \in PipelineKeys |-> IF s # "clean" /\ Pos(s) <= k THEN 1 ELSE 0]

LastStages(k) ==
    [s \in PipelineKeys |-> IF s # "clean" /\ Pos(s) > k THEN 1 ELSE 0]

SplitPoints == { 3, 5, 6, 7, 10 }

RerunPipelines ==
    {AllOn} \cup { FirstStages(k) : k \in SplitPoints }
            \cup { LastStages(k) : k \in SplitPoints }

\* the experiment directory does not exist yet: __init__ creates it, the
\* misc directory and an empty log
EmptyExperiment ==
    /\ runs = 1
    /\ prev_pipeline = [k \in PipelineKeys |-> 0]
    /\ prev_done = FALSE
    /\ pc = [stage |-> "train", lbl |-> "begin"]
    /\ hmm_dir = NoSnap
    /\ model_dir = NoSnap
    /\ iter = 0
    /\ mix_i = 0
    /\ L = 0
    /\ log = << >>
    /\ files = [f \in FileNames |-> "none"]
    /\ misc = [m \in MiscNames |-> "none"]
    /\ snaps = << >>
    /\ ops = << >>

\* one job over two utterances, copies into misc succeed
PlainRun ==
    /\ jobs = 1
    /\ setup_length = 2
    /\ disk_faults = 0

Init ==
    /\ \/ /\ train_pipeline \in [PipelineKeys -> {0, 1}]
          /\ train_pipeline["clean"] = 0
          /\ params = DefaultParams
          /\ PlainRun
       \/ /\ train_pipeline = AllOn
          /\ params \in MonoParams \cup TriParams
          /\ PlainRun
       \/ /\ train_pipeline = AllOn
          /\ params = DefaultParams
          /\ jobs = 1
          /\ setup_length = 2
          /\ disk_faults = MaxCopyFailures
       \/ /\ train_pipeline = FirstStages(3)
          /\ params = DefaultParams
          /\ setup_length \in 1..MaxData
          /\ jobs \in 1..setup_length
          /\ disk_faults = 0
    /\ EmptyExperiment

Next == TrainStep \/ EngineFail \/ MainPrint

Spec == Init /\ [][Next]_vars

\* (mutant) the log is opened with 'w' also when it exists
OpenLogTruncate(lg) == << >>

\* if os.path.isfile(self.log): open(self.log, 'a') else: open(self.log, 'w')
OpenLog(lg) == lg

\* ---- a later process on the same experiment root: Model(config, options)
\* if self.train_pipeline['clean']: os.system('rm -rf %s' %self.exp);
\* the log is opened for append when it exists
Construct ==
    /\ pc.lbl \in {"printed", "failed"}
    /\ runs < MaxRuns
    /\ runs' = runs + 1
    /\ prev_pipeline' = train_pipeline
    /\ prev_done' = (pc.lbl = "printed")
    /\ \E tp \in RerunPipelines, c \in {0, 1} :
          train_pipeline' = [tp EXCEPT !["clean"] = c]
    /\ IF train_pipeline'["clean"] # 0
       THEN /\ log' = OpenLog(<< >>)
            /\ files' = [f \in FileNames |-> "none"]
            /\ misc' = [m \in MiscNames |-> "none"]
            /\ snaps' = << >>
       ELSE /\ log' = OpenLog(log)
            /\ UNCHANGED << files, misc, snaps >>
    /\ pc' = [stage |-> "train", lbl |-> "begin"]
    /\ hmm_dir' = NoSnap
    /\ model_dir' = NoSnap
    /\ iter' = 0
    /\ mix_i' = 0
    /\ L' = 0
    /\ ops' = << >>
    /\ UNCHANGED << params, jobs, setup_length, disk_faults >>

\* the settings whose config.get may fail, in the order __init__ reads them
Settings == << "train_pipeline", "exp", "data", "jobs", "mono_iters" >>

\* the settings read before 'rm -rf' and the opening of the log
ReadBeforeClean == { "train_pipeline", "exp" }

\* Model(config, options) on the experiment root raises in config.get or
\* int() at setting Settings[k]: the statements before it have been
\* executed, the process ends and train() is never called
ConstructFails ==
    /\ pc.lbl \in {"printed", "failed"}
    /\ runs < MaxRuns
    /\ runs' = runs + 1
    /\ prev_pipeline' = train_pipeline
    /\ prev_done' = (pc.lbl = "printed")
    /\ \E tp \in RerunPipelines, c \in {0, 1}, k \in 1..Len(Settings) :
          /\ train_pipeline' = [tp EXCEPT !["clean"] = c]
          /\ IF Settings[k] \in ReadBeforeClean
             THEN UNCHANGED << log, files, misc, snaps >>
             ELSE IF c # 0
             THEN /\ log' = OpenLog(<< >>)
                  /\ files' = [f \in FileNames |-> "none"]
                  /\ misc' = [m \in MiscNames |-> "none"]
                  /\ snaps' = << >>
             ELSE /\ log' = OpenLog(log)
                  /\ UNCHANGED << files, misc, snaps >>
    /\ pc' = [stage |-> "__init__", lbl |-> "config_error"]
    /\ hmm_dir' = NoSnap
    /\ model_dir' = NoSnap
    /\ iter' = 0
    /\ mix_i' = 0
    /\ L' = 0
    /\ ops' = << >>
    /\ UNCHANGED << params, jobs, setup_length, disk_faults >>

InitRerun ==
    /\ train_pipeline \in RerunPipelines
    /\ params = DefaultParams
    /\ PlainRun
    /\ EmptyExperiment

NextRerun == TrainStep \/ MainPrint \/ Construct \/ ConstructFails

SpecRerun == InitRerun /\ [][NextRerun]_vars

\* ======================================================== properties
\* the log lines and calls of the current train()
RunLog == SelectSeq(log, LAMBDA e : e.run = runs)

StartedSeq == SelectSeq(RunLog, LAMBDA e : e.msg = "started")

HasMsg(s, m) ==
    \E i \in 1..Len(RunLog) : RunLog[i].stage = s /\ RunLog[i].msg = m

OpsOf(stage, op) == SelectSeq(ops, LAMBDA r : r.stage = stage /\ r.op = op)

StageOps(stage) == SelectSeq(ops, LAMBDA r : r.stage = stage)

Outs(rs) == [i \in 1..Len(rs) |-> rs[i].out]

\* C1: for every setting of the twelve flags, train() runs the bodies of the
\* enabled stages in the fixed order, each at most once, and no step of a
\* disabled stage: every log line and call belongs to an enabled stage, the
\* 'started' lines come in strictly increasing stage position, and a train()
\* that returns has started and finished every enabled stage.
C1_StageOrder ==
    LET rl == RunLog
        ss == StartedSeq
    IN  /\ \A i \in 1..Len(rl) :
              rl[i].stage \in StageSet => train_pipeline[rl[i].stage] # 0
        /\ \A i \in 1..Len(ops) : train_pipeline[ops[i].stage] # 0
        /\ \A i \in 1..(Len(ss) - 1) : Pos(ss[i].stage) < Pos(ss[i + 1].stage)
        /\ \A i \in 2..(Len(rl) - 1) : Pos(rl[i].stage) <= Pos(rl[i + 1].stage)
        /\ pc.stage \in StageSet /\ pc.lbl # "if" => train_pipeline[pc.stage] # 0
        /\ pc.lbl = "done" =>
              \A s \in StageSet :
                 train_pipeline[s] # 0 =>
                    /\ \E i \in 1..Len(ss) : ss[i].stage = s
                    /\ \E i \in 1..Len(rl) :
                          rl[i].stage = s /\ rl[i].msg = "finished"

\* a train() that returned with some stages disabled between enabled ones
C1_Witness ==
    /\ pc.lbl = "done"
    /\ Len(StartedSeq) >= 6
    /\ \E s, t, u \in StageSet :
          /\ Pos(s) < Pos(t) /\ Pos(t) < Pos(u)
          /\ train_pipeline[s] # 0 /\ train_pipeline[t] = 0
          /\ train_pipeline[u] # 0

\* the stages that grow mixtures, with root, schedule and iterations per entry
MixStages == { "mixup_mono", "mixup_tri", "mixup_tri_2" }

MixRoot(s) ==
    IF s = "mixup_mono" THEN mixup_mono_root
    ELSE IF s = "mixup_tri" THEN xword_root ELSE xword_1_root

MixSched(s) ==
    IF s = "mixup_mono" THEN params.mono_mixup_schedule
    ELSE params.tri_mixup_schedule

MixIters(s) ==
    IF s = "mixup_mono" THEN params.mono_iters ELSE params.tri_iters_per_split

Finished(s) ==
    \E i \in 1..Len(log) :
       log[i].run = runs /\ log[i].stage = s /\ log[i].msg = "finished"

\* C2: no model-producing step of a train() writes a snapshot directory that
\* exists already, whether written earlier by this train() or before it.
C2_NoSnapshotRewritten ==
    \A i \in 1..Len(ops) : ops[i].out # NoSnap => ops[i].fresh

\* the snapshots the run_iter calls of a stage are expected to write
Range(a, b) == [i \in 1..(b - a + 1) |-> a + i - 1]

ExpectedIters(s) ==
    IF s = "flat_start"
    THEN [i \in 1..(params.initial_mono_iters + params.mono_iters) |->
             SnapPath(mono_root, 1, i)]
    ELSE IF s = "mono_to_tri"
    THEN [i \in 1..(params.initial_tri_iters + params.tri_iters) |->
             SnapPath(xword_root, 1,
                      IF i <= params.initial_tri_iters THEN i ELSE i + 1)]
    ELSE IF s = "mono_to_tri_from_xword"
    THEN [i \in 1..(1 + params.tri_iters) |->
             SnapPath(xword_1_root, 1, IF i = 1 THEN 1 ELSE i + 1)]
    ELSE [i \in 1..params.tri_iters_per_split |->
             SnapPath(diag_root, Last(params.tri_mixup_schedule), i)]

LoopStages == { "flat_start", "mono_to_tri", "mono_to_tri_from_xword", "diag" }

\* the snapshot written by the last model-producing call before call k
PrevOut(k) ==
    LET js == { j \in 1..(k - 1) : ops[j].out # NoSnap }
    IN  IF js = {} THEN NoSnap
        ELSE ops[CHOOSE j \in js : \A h \in js : h <= j].out

\* C3: a loop configured with N iterations makes exactly N run_iter calls
\* whatever likelihoods come back, with consecutive iteration numbers, and
\* every run_iter call starts from the snapshot written by the model-producing
\* call just before it.
C3_FixedIterations ==
    /\ \A k \in 1..Len(ops) :
          ops[k].op = "run_iter" =>
             /\ ops[k].in # NoSnap
             /\ ops[k].in = PrevOut(k)
    /\ \A s \in LoopStages :
          Finished(s) => Outs(OpsOf(s, "run_iter")) = ExpectedIters(s)

\* both loops of mono_to_tri ran MaxIters times and the likelihood went down
C3_Witness ==
    /\ Finished("mono_to_tri")
    /\ params.initial_tri_iters = MaxIters
    /\ params.tri_iters = MaxIters
    /\ Len(OpsOf("mono_to_tri", "run_iter")) = 2 * MaxIters
    /\ pc.stage = "mixup_tri"
    /\ L = -70

\* C4: a mixture-growth stage with a schedule of K entries and n iterations
\* per entry makes K mixup calls, one per entry in schedule order, and K*n
\* run_iter calls, and its last snapshot is (root, last entry, n).
C4_GrowMixtures ==
    \A s \in MixStages :
       Finished(s) =>
          LET ms == OpsOf(s, "mixup")
              all == StageOps(s)
          IN  /\ [i \in 1..Len(ms) |-> ms[i].out[2]] = MixSched(s)
              /\ Len(OpsOf(s, "run_iter")) = Len(MixSched(s)) * MixIters(s)
              /\ Len(all) = Len(MixSched(s)) * (MixIters(s) + 1)
              /\ all[Len(all)].out =
                    SnapPath(MixRoot(s), Last(MixSched(s)), MixIters(s))

\* a growth stage finished a schedule of three entries, two iterations each
C4_Witness ==
    /\ Finished("mixup_tri_2")
    /\ Len(params.tri_mixup_schedule) = 3
    /\ params.tri_iters_per_split = 2
    /\ Len(StageOps("mixup_tri_2")) = 9

Sched124 ==
    /\ params.tri_mixup_schedule = <<1, 2, 4>>
    /\ params.tri_iters_per_split = 2

\* C5 as stated: with schedule [1, 2, 4] and 2 iterations per split the stage
\* splits at sizes 2 and 4 only, writes six refinement snapshots and ends at
\* (root, 4, 2).
C5_Original ==
    Finished("mixup_tri") /\ Sched124 =>
       LET ms == OpsOf("mixup_tri", "mixup")
           rs == OpsOf("mixup_tri", "run_iter")
       IN  /\ [i \in 1..Len(ms) |-> ms[i].out[2]] = <<2, 4>>
           /\ Len(rs) = 6
           /\ rs[Len(rs)].out = SnapPath(xword_root, 4, 2)

\* C5 amended: with schedule [1, 2, 4] and 2 iterations per split the stage
\* calls mixup at sizes 1, 2 and 4, writes six refinement snapshots and ends
\* at (root, 4, 2).
C5_Amended ==
    Finished("mixup_tri") /\ Sched124 =>
       LET ms == OpsOf("mixup_tri", "mixup")
           rs == OpsOf("mixup_tri", "run_iter")
       IN  /\ [i \in 1..Len(ms) |-> ms[i].out[2]] = <<1, 2, 4>>
           /\ Len(rs) = 6
           /\ Cardinality({ rs[i].out : i \in 1..Len(rs) }) = 6
           /\ rs[Len(rs)].out = SnapPath(xword_root, 4, 2)
           /\ pc = [stage |-> "align_with_xword", lbl |-> "if"] =>
                 hmm_dir = SnapPath(xword_root, 4, 2)

C5_Witness ==
    /\ Finished("mixup_tri")
    /\ Sched124
    /\ pc = [stage |-> "align_with_xword", lbl |-> "if"]

\* the flags of the previous and of the current invocation taken together
MergedPipeline ==
    [k \in PipelineKeys |->
        IF prev_pipeline[k] # 0 \/ train_pipeline[k] # 0 THEN 1 ELSE 0]

\* a stage enabled only in the previous invocation, which returned, and a
\* stage enabled only in the current one, on the same directory
SplitOver(producer, consumer) ==
    /\ runs >= 2
    /\ prev_done
    /\ train_pipeline["clean"] = 0
    /\ prev_pipeline[producer] # 0 /\ train_pipeline[producer] = 0
    /\ prev_pipeline[consumer] = 0 /\ train_pipeline[consumer] # 0

\* the snapshot the first model-reading call of a stage started from
HasSeed(c) == \E i \in 1..Len(ops) : ops[i].stage = c /\ ops[i].in # NoSnap

Seed(c) ==
    ops[CHOOSE i \in 1..Len(ops) :
           /\ ops[i].stage = c /\ ops[i].in # NoSnap
           /\ \A j \in 1..(i - 1) : ~(ops[j].stage = c /\ ops[j].in # NoSnap)].in

\* C6: with a producer enabled only in the first of two successive
\* invocations and its consumer only in the second, the consumer resolves the
\* snapshot it would resolve with both enabled in one invocation: mono_to_tri
\* after mixdown_mono, diag after mixup_tri_2, mmi after diag or mixup_tri_2.
C6_SplitInvocations ==
    /\ SplitOver("mixdown_mono", "mono_to_tri") /\ HasSeed("mono_to_tri") =>
          Seed("mono_to_tri") = mono_final_dir(MergedPipeline)
    /\ SplitOver("mixup_tri_2", "diag") /\ HasSeed("diag") =>
          Seed("diag") = diag_seed_dir(MergedPipeline)
    /\ (SplitOver("diag", "mmi") \/ SplitOver("mixup_tri_2", "mmi"))
          /\ HasSeed("mmi") =>
          Seed("mmi") = mmi_model_dir(MergedPipeline)

\* the last snapshot a stage wrote in this train()
FinalOf(s) ==
    LET all == SelectSeq(ops, LAMBDA r : r.stage = s /\ r.out # NoSnap)
    IN  all[Len(all)].out

\* every schedule entry of a finished growth stage was split to once, in order
VisitedOnce(s) ==
    LET ms == OpsOf(s, "mixup")
    IN  [i \in 1..Len(ms) |-> ms[i].out[2]] = MixSched(s)

\* the first enabled stage after s; the stages after flat_start all start
\* from a snapshot
NextConsumer(s) ==
    LET later == { c \in StageSet : Pos(c) > Pos(s) /\ train_pipeline[c] # 0 }
    IN  IF later = {} THEN "none"
        ELSE CHOOSE c \in later : \A d \in later : Pos(c) <= Pos(d)

DirectConsumer(s) ==
    IF s = "mixup_mono" THEN "mixdown_mono"
    ELSE IF s = "mixup_tri" THEN "align_with_xword" ELSE "diag"

C8_NoReadFromLaterStage ==
    \A i \in 1..Len(ops) :
       \A w \in ops[i].readBy :
          w \in StageSet => Pos(w) <= Pos(ops[i].stage)

\* C9 as stated: the log only grows, whatever Model is constructed on the
\* experiment root.
C9_Original == [][IsPrefix(log, log')]_vars

\* C9 amended: the log only grows, except when a Model is constructed with the
\* clean flag set, which removes the experiment directory and its log.
C9_Amended ==
    [][(runs' # runs /\ train_pipeline'["clean"] # 0) \/ IsPrefix(log, log')]_vars

\* a second train() without clean returned, its lines after those of the first
C9_Witness ==
    /\ runs = 2
    /\ train_pipeline["clean"] = 0
    /\ pc.lbl = "done"
    /\ \E i, j \in 1..Len(log) :
          i < j /\ log[i].run = 1 /\ log[j].run = 2 /\ log[j].msg = "finished"

\* the state of each stage in the current train(), read off the log
StatusMap ==
    \* the lines of this train(): log entries carry the number of the run
    LET lines == { log[i] : i \in 1..Len(log) }
        started == { e.stage : e \in { x \in lines : x.run = runs /\ x.msg = "started" } }
        finished == { e.stage : e \in { x \in lines : x.run = runs /\ x.msg = "finished" } }
    IN  [s \in StageSet |->
            IF s \notin started THEN "pending"
            ELSE IF s \in finished THEN "completed"
            ELSE IF pc = [stage |-> s, lbl |-> "failed"] THEN "failed"
            ELSE "running"]

Status(s) == StatusMap[s]

StatusInv ==
    \E rl \in {RunLog}, st \in {StatusMap} :
        /\ Cardinality({ s \in StageSet : st[s] \in {"running", "failed"} }) <= 1
        /\ \A s \in StageSet :
              /\ st[s] = "running" => pc.stage = s
              /\ st[s] # "pending" =>
                    \A t \in StageSet :
                       Pos(t) < Pos(s) /\ train_pipeline[t] # 0 =>
                          st[t] = "completed"
              /\ train_pipeline[s] = 0 => st[s] = "pending"
        /\ \A i \in 1..Len(rl) :
              rl[i].msg = "started" /\ st[rl[i].stage] = "completed" =>
                 \E j \in (i + 1)..Len(rl) :
                    /\ rl[j].stage = rl[i].stage /\ rl[j].msg = "finished"
                    /\ \A k \in i..j : rl[k].stage = rl[i].stage

StatusStep ==
    \E old \in {StatusMap}, new \in {StatusMap'} :
        \A s \in StageSet :
           \/ new[s] = old[s]
           \/ << old[s], new[s] >> \in
                 { <<"pending", "running">>, <<"running", "completed">>,
                   <<"running", "failed">> }

\* C10: each stage goes pending -> running -> {completed, failed} and makes
\* no other transition; at most one stage is running; a stage starts only
\* after every earlier enabled stage is completed; a disabled stage stays
\* pending; in the log the 'started' line of a completed stage is followed by
\* its 'finished' line with lines of that stage only in between.
C10_StageStates == StatusInv /\ [][StatusStep /\ StatusInv']_vars

\* a stage failed after an earlier one completed and a disabled one was passed
C10_Witness ==
    /\ pc.lbl = "failed"
    /\ Status(pc.stage) = "failed"
    /\ \E s, u \in StageSet :
          /\ Pos(s) < Pos(u) /\ Pos(u) < Pos(pc.stage)
          /\ train_pipeline[s] # 0 /\ train_pipeline[u] = 0
          /\ Status(s) = "completed" /\ Status(u) = "pending"

\* a cp whose source is missing: the command fails and copies nothing
CopySourceMissing ==
    \/ At("align_with_xword", "restore_mfc_list")
          /\ misc["mfc.list.filtered.by.dict"] = "none"
    \/ At("mmi", "copy_mfc_list") /\ files["mfc_list"] = "none"

FailedRunInv ==
    /\ pc.lbl = "failed" =>
          \E st \in {StatusMap} :
             /\ st[pc.stage] = "failed"
             /\ \A t \in StageSet :
                   Pos(t) > Pos(pc.stage) =>
                      /\ st[t] = "pending"
                      /\ \A i \in 1..Len(ops) : ops[i].stage # t
    /\ pc.lbl = "printed" =>
          \E st \in {StatusMap} :
             \A s \in StageSet : train_pipeline[s] # 0 => st[s] = "completed"

FailedRunStep ==
    /\ pc.lbl # "failed"
    /\ CopySourceMissing => pc'.lbl = "failed"
    /\ pc'.lbl = "failed" => UNCHANGED << log, files, misc, snaps, ops >>

\* C11: a step of an enabled stage that fails (engine failure, missing input)
\* ends the run there: train() takes no further step, the failed stage has no
\* 'finished' line, no later stage logs or calls anything, what was written
\* stays as it is, and the elapsed time is printed only after every enabled
\* stage completed.
C11_FailFast == FailedRunInv /\ [][FailedRunStep /\ FailedRunInv']_vars

\* C12: when train() ended in a failed stage, the last line of the log was
\* written by that stage in this invocation.
C12_LastEntryNamesStage ==
    pc.lbl = "failed" =>
       /\ Len(log) > 0
       /\ Last(log).run = runs
       /\ Last(log).stage = pc.stage

\* a call of a later stage failed after the stage logged a sub-step line
C12_Witness ==
    /\ pc.lbl = "failed"
    /\ Pos(pc.stage) > 1
    /\ Last(log).stage = pc.stage
    /\ Last(log).msg \notin {"started", "finished"}
    /\ \E i \in 1..Len(log) : log[i].msg = "finished"

\* C13: an enabled stage that needs an upstream file that does not exist
\* never completes: align_with_xword without misc/mfc.list.filtered.by.dict,
\* mmi without mfc.list.
C13_MissingUpstreamFails ==
    /\ HasMsg("align_with_xword", "finished") =>
          misc["mfc.list.filtered.by.dict"] # "none"
    /\ HasMsg("mmi", "finished") => files["mfc_list"] # "none"

\* every copy into misc that failed in this train() is named by a log line
\* of the stage that made it
LostCopiesLogged ==
    \A i \in 1..Len(ops) :
       \A n \in ops[i].lost :
          \E k \in 1..Len(log) :
             /\ log[k].run = runs
             /\ log[k].stage = ops[i].stage
             /\ log[k].arg = n

\* the step in which a copy into misc fails goes on as the stage would
LostCopyGoesOn ==
    Len(ops') > Len(ops) /\ Last(ops').lost # {} =>
       /\ pc'.lbl # "failed"
       /\ pc'.stage = pc.stage

\* C14: a failing backup copy into misc does not change the outcome of the
\* stage that made it, and every such failure is recorded by a line in the
\* experiment log.
C14_BestEffortBackup ==
    LostCopiesLogged /\ [][LostCopyGoesOn /\ LostCopiesLogged']_vars

Roots == { mono_root, mixup_mono_root, mixdown_mono_root, xword_root,
           xword_1_root, diag_root, mmi_root }

\* the triples of a root, a mixture size and an iteration up to mmi_iters
Triples == Roots \X (0..mmi_iters) \X (0..mmi_iters)

PathOf == [p \in Triples |-> PathString(p)]

\* the snapshot paths train() has written or holds in its variables
KnownPaths == (DOMAIN snaps \cup {hmm_dir, model_dir}) \ {NoSnap}

\* all triples up to two digits give pairwise distinct paths
TriplesInjective ==
    Cardinality({ PathOf[p] : p \in Triples }) = Cardinality(Triples)

\* C15: the path '<root>/HMM-<size>-<iter>' is a function of the triple and
\* distinct triples give distinct paths, over all triples up to two digits
\* and over the paths a train() builds.
C15_PathInjective ==
    /\ TriplesInjective
    /\ KnownPaths \subseteq Triples
    /\ Cardinality({ PathOf[p] : p \in KnownPaths }) = Cardinality(KnownPaths)
    /\ \A p \in KnownPaths : PathString(SnapPath(p[1], p[2], p[3])) = PathOf[p]

\* snapshots of the same size and iteration under two roots of which one
\* name begins with the other, and two snapshots under one root
C15_Witness ==
    /\ SnapPath(xword_root, 1, 1) \in DOMAIN snaps
    /\ SnapPath(xword_1_root, 1, 1) \in DOMAIN snaps
    /\ SnapPath(xword_1_root, 1, 2) \in DOMAIN snaps
    /\ SnapPath(mmi_root, 2, 12) \in DOMAIN snaps

\* the tying steps of this train()
FirstTying == OpsOf("mono_to_tri", "tie_states_search")

SecondTying == OpsOf("mono_to_tri_from_xword", "tie_states_search")

\* C16 as stated: after the tying step of mono_to_tri_from_xword the map
\* written by the tying step of mono_to_tri is still at the place where it
\* was written.
C16_Original ==
    Len(FirstTying) > 0 /\ Len(SecondTying) > 0 =>
       files["tied_list"] = "mono_to_tri"

\* C16 amended: the tying step of mono_to_tri_from_xword overwrites tied.list
\* with its own map; the map of mono_to_tri's tying step is kept, unchanged,
\* as misc/tied.list.initial when that copy was made, and the new map is
\* copied to misc/tied.list.second, not over it.
C16_Amended ==
    Len(SecondTying) > 0 =>
       /\ files["tied_list"] = "mono_to_tri_from_xword"
       /\ Len(FirstTying) > 0 /\ "tied.list.initial" \notin FirstTying[1].lost =>
             misc["tied.list.initial"] = "mono_to_tri"
       /\ "tied.list.second" \notin SecondTying[1].lost =>
             misc["tied.list.second"] = "mono_to_tri_from_xword"

\* both tying steps ran and both copies were made
C16_Witness ==
    /\ Len(FirstTying) > 0 /\ Len(SecondTying) > 0
    /\ misc["tied.list.initial"] = "mono_to_tri"
    /\ misc["tied.list.second"] = "mono_to_tri_from_xword"

TriMixStages == { "mixup_tri", "mixup_tri_2" }

\* the mixup calls of the stage that ask for a new variance floor
FloorCalls(s) ==
    LET ms == OpsOf(s, "mixup")
    IN  { i \in 1..Len(ms) : ms[i].evf = 1 }

\* the mixture count grows at the i-th mixup call; the stage starts from a
\* snapshot with one mixture component
Grows(s, i) ==
    LET ms == OpsOf(s, "mixup")
    IN  ms[i].out[2] > (IF i = 1 THEN 1 ELSE ms[i - 1].out[2])

AtFirstGrowthOnly(s) ==
    /\ Cardinality(FloorCalls(s)) <= 1
    /\ \A i \in FloorCalls(s) :
          /\ Grows(s, i)
          /\ \A j \in 1..(i - 1) : ~Grows(s, j)

\* C18: for every schedule at most one mixup call of a triphone
\* growth stage asks for a new variance floor, and it is the first split that
\* increases the mixture count.
C18_VarFloorAtFirstSplit == \A s \in TriMixStages : AtFirstGrowthOnly(s)

\* the files the stages share and rewrite
SharedFiles == { "mfc_list", "phone_mlf", "tri_mlf", "tri_list", "tied_list" }

\* the misc names the i-th call's step copies file f to
CopiedAt(i, f) ==
    { ops[i].bk[k][1] : k \in { m \in 1..Len(ops[i].bk) : ops[i].bk[m][2] = f } }

\* every copy into misc made by this train(): << call, misc name >>
AllCopies ==
    UNION { { << i, ops[i].bk[k][1] >> : k \in 1..Len(ops[i].bk) } :
               i \in 1..Len(ops) }

\* C19: within one train(), a version of a shared file that a later step
\* overwrites has been copied to misc in the step that wrote it, the copy
\* (unless cp failed) is still that version, and no two copies of the
\* invocation go to the same misc name.
C19_BackupBeforeOverwrite ==
    /\ \A f \in SharedFiles :
          \A i, j \in 1..Len(ops) :
             i < j /\ f \in ops[i].wr /\ f \in ops[j].wr =>
                /\ CopiedAt(i, f) # {}
                /\ \A n \in CopiedAt(i, f) \ ops[i].lost :
                      misc[n] = ops[i].stage
    /\ \A c, d \in AllCopies : c[2] = d[2] => c = d
    /\ At("align_with_xword", "align")
          /\ files["mfc_list"] = "align_with_xword" =>
          misc["mfc.list.filtered.by.dict"] # "none"

\* mfc.list was written four times and tri.mlf twice, the copies are in misc
C19_Witness ==
    /\ \E i \in 1..Len(ops) :
          ops[i].stage = "mono_to_tri_from_xword" /\ "tri_mlf" \in ops[i].wr
    /\ misc["mfc.list.original"] = "coding"
    /\ misc["mfc.list.filtered.by.dict"] = "lm"
    /\ misc["mfc.list.filtered.by.mono.align"] = "flat_start"
    /\ misc["tri.mlf.from.mono.align"] = "mono_to_tri"
    /\ misc["tri.mlf.from.xword.align"] = "mono_to_tri_from_xword"
    /\ files["mfc_list"] = "align_with_xword"

StrictlyIncreasing(sq) == \A i \in 1..(Len(sq) - 1) : sq[i] < sq[i + 1]

\* all stages enabled, every iteration count at least 1, both schedules
\* strictly increasing and starting above 1
FullRun ==
    /\ \A s \in StageSet : train_pipeline[s] # 0
    /\ params.initial_mono_iters >= 1 /\ params.mono_iters >= 1
    /\ params.initial_tri_iters >= 1 /\ params.tri_iters >= 1
    /\ params.tri_iters_per_split >= 1
    /\ StrictlyIncreasing(params.mono_mixup_schedule)
    /\ params.mono_mixup_schedule[1] > 1
    /\ StrictlyIncreasing(params.tri_mixup_schedule)
    /\ params.tri_mixup_schedule[1] > 1

\* train() is about to read path p as the seed taken over from `producer`
SeedIs(p, producer) == p = FinalOf(producer) /\ p \in DOMAIN snaps

\* C20: in a single invocation on an empty directory with all stages enabled,
\* iteration counts of at least 1 and strictly increasing schedules starting
\* above 1, every seed path a stage computes from the configured counts is
\* the last snapshot its producing stage wrote.
C20_SeedsWereWritten ==
    FullRun =>
       /\ At("mixup_mono", "mixup") /\ mix_i = 1 => SeedIs(hmm_dir, "flat_start")
       /\ At("mixdown_mono", "mixdown_mono") => SeedIs(hmm_dir, "mixup_mono")
       /\ At("mono_to_tri", "mono_to_tri") =>
             SeedIs(mono_final_dir(train_pipeline), "mixdown_mono")
       /\ At("mixup_tri", "mixup") /\ mix_i = 1 => SeedIs(hmm_dir, "mono_to_tri")
       /\ At("align_with_xword", "align") => SeedIs(hmm_dir, "mixup_tri")
       /\ At("mono_to_tri_from_xword", "mono_to_tri") =>
             SeedIs(SnapPath(mixdown_mono_root, 1, 0), "mixdown_mono")
       /\ At("mono_to_tri_from_xword", "run_iter_1") =>
             SeedIs(xword_final_dir, "mixup_tri")
       /\ At("mixup_tri_2", "mixup") /\ mix_i = 1 =>
             SeedIs(hmm_dir, "mono_to_tri_from_xword")
       /\ At("diag", "diagonalize") =>
             SeedIs(diag_seed_dir(train_pipeline), "mixup_tri_2")
       /\ At("mmi", "decode_to_lattices") => SeedIs(model_dir, "diag")

\* mmi is about to decode with the last snapshot of diag, after growth
\* stages that went through two schedule entries
C20_Witness ==
    /\ FullRun
    /\ Len(params.tri_mixup_schedule) >= 2
    /\ At("mmi", "decode_to_lattices")
    /\ model_dir = FinalOf("diag")

\* the number of entries of a piece << first, last >>
PieceSize(piece) == piece[2] - piece[1] + 1

RECURSIVE SumSizes(_)
SumSizes(ps) == IF ps = << >> THEN 0 ELSE PieceSize(Head(ps)) + SumSizes(Tail(ps))

\* C17: a job dispatched with parallelism P over a list of length L, with
\* 1 <= P <= L, is split into exactly P contiguous pieces that cover the list
\* without overlap, whose sizes sum to L and differ by at most 1.
C17_EvenPartitions ==
    \A i \in 1..Len(ops) :
       ops[i].op = "run_iter" =>
          LET ps == ops[i].parts
          IN  /\ Len(ps) = jobs
              /\ ps[1][1] = 1
              /\ ps[Len(ps)][2] = setup_length
              /\ \A k \in 1..(Len(ps) - 1) : ps[k + 1][1] = ps[k][2] + 1
              /\ SumSizes(ps) = setup_length
              /\ \A k, m \in 1..Len(ps) :
                    PieceSize(ps[k]) - PieceSize(ps[m]) <= 1

\* the monophone snapshots the mono_to_tri calls of a stage read
MonoSeeds(stage) ==
    { OpsOf(stage, "mono_to_tri")[i].in :
         i \in 1..Len(OpsOf(stage, "mono_to_tri")) }

\* C21: in an invocation with mono_to_tri and mono_to_tri_from_xword both
\* enabled, the two stages initialise their triphone models from the same
\* final monophone snapshot, with mixdown_mono enabled or not.
C21_SameMonoSeed ==
    train_pipeline["mono_to_tri"] # 0
       /\ train_pipeline["mono_to_tri_from_xword"] # 0 =>
       \A p \in MonoSeeds("mono_to_tri"),
          q \in MonoSeeds("mono_to_tri_from_xword") : p = q

\* the stages that pass the tied-state list together with a snapshot
TiedStages ==
    { "mixup_tri", "align_with_xword", "mixup_tri_2", "diag", "mmi" }

\* the last of the first n calls that wrote snapshot p, 0 when there is none
WriterOf(p, n) ==
    LET ws == { i \in 1..n : ops[i].out = p }
    IN  IF ws = {} THEN 0 ELSE CHOOSE i \in ws : \A j \in ws : j <= i

\* the stage whose tying step snapshot p, as it was after the first n calls,
\* descends from: the chain of seeds is followed back to a tying call
RECURSIVE TyingOf(_, _)
TyingOf(p, n) ==
    LET w == WriterOf(p, n)
    IN  IF w = 0 THEN "none"
        ELSE IF ops[w].op = "tie_states_search" THEN ops[w].stage
        ELSE IF ops[w].in = NoSnap THEN "none"
        ELSE TyingOf(ops[w].in, w - 1)

\* the i-th call reads the tied-state list and starts from a snapshot
UsesTiedModel(i) ==
    /\ ops[i].stage \in TiedStages
    /\ ops[i].in # NoSnap
    /\ "tied_list" \in DOMAIN ops[i].from

\* C22: for every setting of the flags in a single invocation, whenever a
\* call of mixup_tri, align_with_xword, mixup_tri_2, diag or mmi gets the
\* tied-state list together with a snapshot, the list on disk at that moment
\* was written by the tying step the snapshot descends from.
C22_TiedListMatchesModel ==
    \A i \in 1..Len(ops) :
       UsesTiedModel(i) =>
          ops[i].from["tied_list"] = TyingOf(ops[i].in, i - 1)

\* the step is a construction of Model that ended in a configuration error
FailedConstruction == pc'.lbl = "config_error" /\ pc.lbl # "config_error"

\* C23: when the construction of Model fails on a missing or malformed
\* setting, no stage has run and the experiment directory (snapshots, shared
\* files, log, misc copies) is as it was before the construction, also when
\* the clean flag is set.
C23_ConfigErrorKeepsDirectory ==
    [][FailedConstruction =>
          /\ ops' = << >>
          /\ \A i \in 1..Len(log') : log'[i].run # runs'
          /\ log' = log
          /\ files' = files
          /\ misc' = misc
          /\ snaps' = snaps]_vars
====
